---- MODULE Spec2Model ----
(***************************************************************************)
(* Model of backend/scripts/lightning_executor.py: one run of              *)
(* execute_in_cloud (session acquisition, start, responsiveness probe,     *)
(* clone, command pipeline, teardown, promotion rule) together with the    *)
(* CLI fallback execute_via_cli and the timeout wrapper run_with_timeout.  *)
(*                                                                         *)
(* Text is abstracted in two ways.  A command text or URL is the set of    *)
(* classifier keywords its lower-cased form contains, so that the test     *)
(* `'install' in cmd.lower()` is set membership.  Captured output and      *)
(* exception messages are represented by their length, so that a slice     *)
(* `s[:n]` is the minimum of the length and n.                             *)
(***************************************************************************)
EXTENDS Integers, Sequences, FiniteSets

\* ---------------------------------------------------------------- bounds
MaxCmds == 2
SmallLen == 12
HugeLen == 6000

\* ------------------------------------------------------ program constants
CloneStdoutCap == 1000
CmdStdoutCap == 5000
CmdStderrCap == 2000
TimeoutExitCode == 124
InstallBudget == 600
TestBudget == 300
OtherBudget == 180
GuardGrace == 30
StartBudget == 120
ProbeBudget == 30
CloneBudget == 120
TimeoutMsgLen == 28

VARIABLES
    api_key,            \* LIGHTNING_API_KEY is set and non-empty
    username,           \* LIGHTNING_USERNAME is set and non-empty
    user_id,            \* LIGHTNING_USER_ID is set and non-empty
    use_cli_fallback,   \* LIGHTNING_USE_CLI_FALLBACK as read by the handler
    repo_url,           \* keywords contained in the repository URL
    commands,           \* the caller's command list
    output_size,        \* length of the text remote calls and the CLI produce
    pc,                 \* position of the run inside execute_in_cloud
    studio,             \* None, or the strategy that produced the handle
    last_error,         \* the strategy whose failure reason is retained
    results,            \* the report under construction
    idx,                \* 1-based index of the command the loop is at
    ops,                \* remote operations issued so far, in order
    acq,                \* acquisition attempts with their outcomes
    teardown,           \* outcome of the two teardown steps
    returned,           \* the report handed back to the caller
    retPath,            \* which return statement produced `returned`
    last_outcome,       \* how the most recent guarded call ended
    alarm               \* a SIGALRM alarm is pending

vars == <<api_key, username, user_id, use_cli_fallback, repo_url, commands,
          output_size,
          pc, studio, last_error, results, idx, ops, acq, teardown,
          returned, retPath, last_outcome, alarm>>

guard == <<last_outcome, alarm>>

inputs == <<api_key, username, user_id, repo_url, commands, output_size>>

env == <<inputs, use_cli_fallback>>

\* ------------------------------------------------------------------ text
Keywords == {"install", "download", "test"}

\* "pip install x", "download data", "pytest", "ls"
CmdTexts == {{"install"}, {"download"}, {"test"}, {}}

UrlTexts == {{}, {"install"}}

RawLens == {SmallLen, HugeLen}

Contains(kw, text) == kw \in text

Min(a, b) == IF a <= b THEN a ELSE b

\* s[:cap] on a text of length len
Truncate(len, cap) == Min(len, cap)

SeqsUpTo(S, n) == UNION {[1..k -> S] : k \in 0..n}

\* ------------------------------------------------------- run_with_timeout
\* What the wrapped call does by itself: returns, raises, or does not
\* come back within any budget.
RawOutcomes == {"ok", "fail", "hang"}

\* A guarded call: the alarm turns a call that does not come back into
\* TimeoutError; a result or an exception of the call passes through.
run_with_timeout(raw) == IF raw = "hang" THEN "timeout" ELSE raw

\* signal.alarm(0): whatever was pending is cancelled.
CancelAlarm(pending) == FALSE

\* Plausible slip: the alarm is not cancelled when the call raises.
AlarmAfter_NoCancelOnError(raw) ==
    LET armed == TRUE
        spent == FALSE
    IN  CASE raw = "ok" -> CancelAlarm(armed)
          [] raw = "hang" -> CancelAlarm(spent)
          [] raw = "fail" -> armed

\* The alarm at the exit of run_with_timeout.  signal.alarm(t) arms it;
\* an alarm that went off is spent; each of the three exits calls
\* signal.alarm(0).
AlarmAfter(raw) ==
    LET armed == TRUE
        spent == FALSE
    IN  CASE raw = "ok" -> CancelAlarm(armed)
          [] raw = "hang" -> CancelAlarm(spent)
          [] raw = "fail" -> CancelAlarm(armed)

\* ------------------------------------------------------------- classifier
IsInstallClass(cmd) == Contains("install", cmd) \/ Contains("download", cmd)

TimeoutFor(cmd) ==
    IF IsInstallClass(cmd) THEN InstallBudget
    ELSE IF Contains("test", cmd) THEN TestBudget
    ELSE OtherBudget

GuardBudgetFor(cmd) == TimeoutFor(cmd) + GuardGrace

\* ----------------------------------------------------------------- report
Output(command, stdout, stderr, exitCode, success) ==
    [command |-> command, stdout |-> stdout, stderr |-> stderr,
     exitCode |-> exitCode, success |-> success]

\* An error string: its kind, and the command (0: none) it is about.
Err(kind, cmd) == [kind |-> kind, cmd |-> cmd]

Report(success, outputs, errors) ==
    [success |-> success, outputs |-> outputs, errors |-> errors]

EmptyResults == Report(TRUE, <<>>, <<>>)

NoApiKeyReport == Report(FALSE, <<>>, <<Err("api_key_not_set", 0)>>)

NoUserReport ==
    Report(FALSE, <<>>, <<Err("user_not_set", 0), Err("sdk_needs_user", 0),
                          Err("get_username_hint", 0)>>)

\* The first string quotes last_error; the blank lines, the four
\* troubleshooting steps and the three variable lines are one entry each
\* of "troubleshooting" and "required_env".
CreationFailed(reason) ==
    CASE reason = "connect" -> Err("studio_creation_failed: connect", 0)
      [] reason = "create_ws" -> Err("studio_creation_failed: create_ws", 0)
      [] reason = "create_personal" ->
            Err("studio_creation_failed: create_personal", 0)
      [] OTHER -> Err("studio_creation_failed: None", 0)

AcquisitionFailedReport(reason) ==
    Report(FALSE, <<>>, <<CreationFailed(reason),
                          Err("troubleshooting", 0), Err("required_env", 0)>>)

ProbeTimeoutReport ==
    Report(FALSE, <<>>, <<Err("studio_not_responsive_timeout", 0),
                          Err("try_again", 0)>>)

ProbeFailedReport == Report(FALSE, <<>>, <<Err("studio_not_responsive", 0)>>)

CloneOk(r, len) ==
    [r EXCEPT !.outputs =
        Append(@, Output(repo_url, Truncate(len, CloneStdoutCap), 0, 0, TRUE))]

\* Plausible slip: the failure is flagged but no message is recorded.
CloneTimedOut_NoMessage(r) == [r EXCEPT !.success = FALSE]

CloneTimedOut(r) ==
    [r EXCEPT !.success = FALSE,
              !.errors = Append(@, Err("clone_timed_out", 0))]

CloneFailed(r) ==
    [r EXCEPT !.success = FALSE,
              !.errors = Append(@, Err("clone_failed", 0))]

CmdOk(r, k, len) ==
    [r EXCEPT !.outputs =
        Append(@, Output(commands[k], Truncate(len, CmdStdoutCap), 0, 0, TRUE))]

\* Plausible slip: a timed-out command leaves an error but no result.
CmdTimedOut_NoResult(r, k) ==
    [r EXCEPT !.errors = Append(@, Err("cmd_timed_out", k))]

\* Plausible slip: a timed-out command marks the run failed.
CmdTimedOut_MarksFailure(r, k) ==
    [r EXCEPT !.outputs =
                 Append(@, Output(commands[k], 0, TimeoutMsgLen,
                                  TimeoutExitCode, FALSE)),
              !.errors = Append(@, Err("cmd_timed_out", k)),
              !.success = FALSE]

CmdTimedOut(r, k) ==
    [r EXCEPT !.outputs =
                 Append(@, Output(commands[k], 0, TimeoutMsgLen,
                                  TimeoutExitCode, FALSE)),
              !.errors = Append(@, Err("cmd_timed_out", k))]

\* Plausible slips of the stop rule: never stopping, always stopping.
StopsPipeline_Never(cmd) == FALSE

StopsPipeline_Always(cmd) == TRUE

\* The `if` that follows a failed command: stop on install-class failures.
StopsPipeline(cmd) == IsInstallClass(cmd)

\* Plausible slip: every failed command marks the run failed.
CmdFailed_MarksFailure(r, k, len) ==
    [r EXCEPT !.outputs =
                 Append(@, Output(commands[k], 0, Truncate(len, CmdStderrCap),
                                  1, FALSE)),
              !.errors = Append(@, Err("cmd_failed", k)),
              !.success = FALSE]

CmdFailed(r, k, len) ==
    [r EXCEPT !.outputs =
                 Append(@, Output(commands[k], 0, Truncate(len, CmdStderrCap),
                                  1, FALSE)),
              !.errors = Append(@, Err("cmd_failed", k)),
              !.success = IF StopsPipeline(commands[k]) THEN FALSE ELSE @]

\* Plausible slip: a failed workspace removal marks the run failed.
CleanupFailed_MarksFailure(r) == [r EXCEPT !.success = FALSE]

\* Teardown handlers: a warning is printed, the report is not touched.
CleanupFailed(r) == r

StopFailed(r) == r

\* Promotion rule applied before the pipeline's return.
InstallSucceeded(outputs) ==
    \E j \in DOMAIN outputs :
        outputs[j].success /\ Contains("install", outputs[j].command)

Promote(r) ==
    IF Len(r.outputs) > 0 /\ ~r.success /\ InstallSucceeded(r.outputs)
    THEN [r EXCEPT !.success = TRUE,
                   !.errors = Append(@, Err("note_install_succeeded", 0))]
    ELSE r

\* Outer handler: the primary report is marked failed.
ExceptReport(r) ==
    [r EXCEPT !.success = FALSE,
              !.errors = Append(@, Err("sdk_execution_failed", 0))]

\* ---------------------------------------------------------- execute_via_cli
CliOutcomes == {"unavailable", "ok", "nonzero", "timeout", "error"}

execute_via_cli(outcome, len) ==
    CASE outcome = "unavailable" ->
            Report(FALSE, <<>>, <<Err("cli_not_available", 0)>>)
      [] outcome = "ok" ->
            Report(TRUE, <<Output({}, len, len, 0, TRUE)>>, <<>>)
      [] outcome = "nonzero" ->
            Report(FALSE, <<Output({}, len, len, 1, FALSE)>>,
                   <<Err("cli_execution_failed", 0)>>)
      [] outcome = "timeout" ->
            Report(FALSE, <<>>, <<Err("cli_timed_out", 0)>>)
      [] outcome = "error" ->
            Report(FALSE, <<>>, <<Err("cli_execution_error", 0)>>)

\* Plausible slip: the fallback's errors replace the primary ones.
MergeFallback_Replace(r, cli) == [r EXCEPT !.errors = cli.errors]

\* results['errors'].extend(cli_results.get('errors', []))
MergeFallback(r, cli) == [r EXCEPT !.errors = @ \o cli.errors]

\* main: sys.exit(0 if results['success'] else 1)
ExitCode(report) == IF report.success THEN 0 ELSE 1

\* ------------------------------------------------------------------ state
Op(name, cmd, budget) == [op |-> name, cmd |-> cmd, budget |-> budget]

NoTeardown == [rm |-> "none", stop |-> "none"]

Init ==
    /\ api_key \in BOOLEAN
    /\ username \in BOOLEAN
    /\ user_id \in BOOLEAN
    /\ use_cli_fallback = "unread"
    /\ repo_url \in UrlTexts
    /\ commands \in SeqsUpTo(CmdTexts, MaxCmds)
    /\ output_size \in RawLens
    /\ pc = "config"
    /\ studio = "none"
    /\ last_error = "none"
    /\ results = EmptyResults
    /\ idx = 1
    /\ ops = <<>>
    /\ acq = <<>>
    /\ teardown = NoTeardown
    /\ returned = EmptyResults
    /\ retPath = "none"
    /\ last_outcome = "none"
    /\ alarm = FALSE

Return(report, path) ==
    /\ returned' = report
    /\ retPath' = path
    /\ pc' = "done"

Goto(next) ==
    /\ pc' = next
    /\ UNCHANGED <<returned, retPath>>

\* A remote call made outside run_with_timeout never comes back.
Hang == Goto("hung")

\* ------------------------------------------------------------ credentials
\* Plausible slip: only the user parameter is checked.
ConfigError_NoKeyCheck(key, name, id) ==
    IF ~(name \/ id) THEN "user" ELSE "none"

\* `if not api_key`, then `user_param = username or user_id`
ConfigError(key, name, id) ==
    IF ~key THEN "api_key"
    ELSE IF ~(name \/ id) THEN "user"
    ELSE "none"

CheckConfig ==
    /\ pc = "config"
    /\ LET error == ConfigError(api_key, username, user_id) IN
       CASE error = "api_key" -> Return(NoApiKeyReport, "config")
         [] error = "user" -> Return(NoUserReport, "config")
         [] error = "none" -> Goto("connect")
    /\ UNCHANGED <<env, guard, studio, last_error, results, idx, ops, acq,
                   teardown>>

\* ------------------------------------------------------------ acquisition
\* Plausible slip: creation is attempted whatever connect returned.
NextAfterConnect_AlwaysCreate(studio_created) == "create_ws"

\* `if not studio_created:` after the connect attempt
NextAfterConnect(studio_created) ==
    IF studio_created THEN "start" ELSE "create_ws"

\* Plausible slip: the first failure reason is kept, later ones dropped.
RetainReason_First(previous, strategy) ==
    IF previous = "none" THEN strategy ELSE previous

\* last_error = str(e): the latest failure replaces the earlier one.
RetainReason(previous, strategy) == strategy

Attempt(strategy, raw) ==
    /\ ops' = Append(ops, Op(strategy, 0, 0))
    /\ acq' = Append(acq, [strategy |-> strategy, outcome |-> raw])

Connect ==
    /\ pc = "connect"
    /\ \E raw \in RawOutcomes :
        /\ Attempt("connect", raw)
        /\ CASE raw = "ok" ->
                  /\ studio' = "connect"
                  /\ Goto(NextAfterConnect(TRUE))
                  /\ UNCHANGED last_error
             [] raw = "fail" ->
                  /\ last_error' = RetainReason(last_error, "connect")
                  /\ Goto(NextAfterConnect(FALSE))
                  /\ UNCHANGED studio
             [] raw = "hang" ->
                  /\ Hang
                  /\ UNCHANGED <<studio, last_error>>
    /\ UNCHANGED <<env, guard, results, idx, teardown>>

CreateInWorkspace ==
    /\ pc = "create_ws"
    /\ \E raw \in RawOutcomes :
        /\ Attempt("create_ws", raw)
        /\ CASE raw = "ok" ->
                  /\ studio' = "workspace"
                  /\ Goto("start")
                  /\ UNCHANGED last_error
             [] raw = "fail" ->
                  /\ last_error' = RetainReason(last_error, "create_ws")
                  /\ Goto("create_personal")
                  /\ UNCHANGED studio
             [] raw = "hang" ->
                  /\ Hang
                  /\ UNCHANGED <<studio, last_error>>
    /\ UNCHANGED <<env, guard, results, idx, teardown>>

CreatePersonal ==
    /\ pc = "create_personal"
    /\ \E raw \in RawOutcomes :
        /\ Attempt("create_personal", raw)
        /\ CASE raw = "ok" ->
                  /\ studio' = "personal"
                  /\ Goto("start")
                  /\ UNCHANGED last_error
             [] raw = "fail" ->
                  /\ last_error' =
                        RetainReason(last_error, "create_personal")
                  /\ Return(AcquisitionFailedReport(last_error'),
                            "acquisition")
                  /\ UNCHANGED studio
             [] raw = "hang" ->
                  /\ Hang
                  /\ UNCHANGED <<studio, last_error>>
    /\ UNCHANGED <<env, guard, results, idx, teardown>>

\* A remote call issued through run_with_timeout.
GuardedCall(name, cmd, budget, raw) ==
    /\ ops' = Append(ops, Op(name, cmd, budget))
    /\ last_outcome' = run_with_timeout(raw)
    /\ alarm' = AlarmAfter(raw)

\* ------------------------------------------------------- start and probe
\* Plausible slip: a start that did not succeed is treated as fatal.
StartNext_FailFast(outcome) == IF outcome = "ok" THEN "probe" ELSE "except"

\* Success, TimeoutError and any other exception all set studio_started.
StartNext(outcome) == "probe"

Start ==
    /\ pc = "start"
    /\ \E raw \in RawOutcomes :
        LET outcome == run_with_timeout(raw) IN
        /\ outcome \in {"ok", "timeout", "fail"}
        /\ GuardedCall("start", 0, StartBudget, raw)
        /\ Goto(StartNext(outcome))
    /\ UNCHANGED <<env, studio, last_error, results, idx, acq, teardown>>

\* Plausible slip: a probe exception is left to the outer handler.
AfterProbeFailure_Propagate(report, path) == Goto("except")

\* `return {...}` in the probe's `except Exception` handler
AfterProbeFailure(report, path) == Return(report, path)

Probe ==
    /\ pc = "probe"
    /\ \E raw \in RawOutcomes :
        LET outcome == run_with_timeout(raw) IN
        /\ GuardedCall("probe", 0, ProbeBudget, raw)
        /\ CASE outcome = "ok" -> Goto("clone")
             [] outcome = "timeout" ->
                  Return(ProbeTimeoutReport, "probe_timeout")
             [] outcome = "fail" ->
                  AfterProbeFailure(ProbeFailedReport, "probe_failed")
    /\ UNCHANGED <<env, studio, last_error, results, idx, acq, teardown>>

\* ------------------------------------------------------------------ clone
\* Loop entry and the loop's own exit test.
LoopNext(k) == IF k <= Len(commands) THEN "cmd" ELSE "cleanup"

\* Plausible slip: a failed clone still goes through teardown.
AfterCloneFailure_Teardown(report, path) == Goto("cleanup")

\* Plausible slip: a clone exception is left to the outer handler.
AfterCloneFailure_Propagate(report, path) == Goto("except")

\* `return results` in both clone handlers
AfterCloneFailure(report, path) == Return(report, path)

Clone ==
    /\ pc = "clone"
    /\ \E raw \in RawOutcomes :
        LET outcome == run_with_timeout(raw) IN
        /\ GuardedCall("clone", 0, CloneBudget, raw)
        /\ CASE outcome = "ok" ->
                  /\ results' = CloneOk(results, output_size)
                  /\ Goto(LoopNext(1))
             [] outcome = "timeout" ->
                  /\ results' = CloneTimedOut(results)
                  /\ AfterCloneFailure(results', "clone_timeout")
             [] outcome = "fail" ->
                  /\ results' = CloneFailed(results)
                  /\ AfterCloneFailure(results', "clone_failed")
    /\ UNCHANGED <<env, studio, last_error, idx, acq, teardown>>

\* --------------------------------------------------------------- pipeline
RunCommand ==
    /\ pc = "cmd"
    /\ idx <= Len(commands)
    /\ \E raw \in RawOutcomes :
        LET outcome == run_with_timeout(raw)
            cmd == commands[idx] IN
        /\ GuardedCall("cmd", idx, GuardBudgetFor(cmd), raw)
        /\ CASE outcome = "ok" ->
                  /\ results' = CmdOk(results, idx, output_size)
                  /\ idx' = idx + 1
                  /\ Goto(LoopNext(idx + 1))
             [] outcome = "timeout" ->
                  /\ results' = CmdTimedOut(results, idx)
                  /\ idx' = idx + 1
                  /\ Goto(LoopNext(idx + 1))
             [] outcome = "fail" ->
                  /\ results' = CmdFailed(results, idx, output_size)
                  /\ IF StopsPipeline(cmd)
                     THEN /\ idx' = idx
                          /\ Goto("cleanup")
                     ELSE /\ idx' = idx + 1
                          /\ Goto(LoopNext(idx + 1))
    /\ UNCHANGED <<env, studio, last_error, acq, teardown>>

\* --------------------------------------------------------------- teardown
\* studio.run("rm -rf ...") and studio.stop() are called directly.
\* Plausible slip: a failed workspace removal skips the session stop.
AfterCleanupFailure_SkipStop == "aggregate"

\* The removal handler falls through to the `try` around studio.stop().
AfterCleanupFailure == "stop"

Cleanup ==
    /\ pc = "cleanup"
    /\ \E raw \in RawOutcomes :
        /\ ops' = Append(ops, Op("rm", 0, 0))
        /\ teardown' = [teardown EXCEPT !.rm = raw]
        /\ CASE raw = "ok" -> Goto("stop") /\ UNCHANGED results
             [] raw = "fail" ->
                  /\ Goto(AfterCleanupFailure)
                  /\ results' = CleanupFailed(results)
             [] raw = "hang" -> Hang /\ UNCHANGED results
    /\ UNCHANGED <<env, guard, studio, last_error, idx, acq>>

Stop ==
    /\ pc = "stop"
    /\ \E raw \in RawOutcomes :
        /\ ops' = Append(ops, Op("stop", 0, 0))
        /\ teardown' = [teardown EXCEPT !.stop = raw]
        /\ CASE raw = "ok" -> Goto("aggregate") /\ UNCHANGED results
             [] raw = "fail" ->
                  Goto("aggregate") /\ results' = StopFailed(results)
             [] raw = "hang" -> Hang /\ UNCHANGED results
    /\ UNCHANGED <<env, guard, studio, last_error, idx, acq>>

\* ------------------------------------------------------------ aggregation
Aggregate ==
    /\ pc = "aggregate"
    /\ results' = Promote(results)
    /\ Return(results', "pipeline")
    /\ UNCHANGED <<env, guard, studio, last_error, idx, ops, acq, teardown>>

\* ---------------------------------------------------------- outer handler
\* Statements of the outer try that stand outside every inner handler
\* (progress output, name and path derivation): an exception raised by
\* one of them reaches the outer `except Exception`.
EscapePoints ==
    {"connect", "start", "probe", "clone", "cmd", "cleanup"}

Escape ==
    /\ pc \in EscapePoints
    /\ Goto("except")
    /\ UNCHANGED <<env, guard, studio, last_error, results, idx, ops, acq,
                   teardown>>

\* os.environ.get('LIGHTNING_USE_CLI_FALLBACK', 'true').lower() == 'true'
AfterHandler ==
    \E flag \in BOOLEAN :
        /\ use_cli_fallback' = flag
        /\ IF flag THEN Goto("fallback") ELSE Return(results', "handler")

HandleException ==
    /\ pc = "except"
    /\ results' = ExceptReport(results)
    /\ IF studio # "none"
       THEN \E raw \in RawOutcomes :
               /\ ops' = Append(ops, Op("stop", 0, 0))
               /\ IF raw = "hang"
                  THEN Hang /\ UNCHANGED use_cli_fallback
                  ELSE AfterHandler
       ELSE /\ UNCHANGED ops
            /\ AfterHandler
    /\ UNCHANGED <<inputs, guard, studio, last_error, idx, acq, teardown>>

Fallback ==
    /\ pc = "fallback"
    /\ \E outcome \in CliOutcomes :
        LET cli_results == execute_via_cli(outcome, output_size) IN
        /\ ops' = Append(ops, Op("cli", 0, 0))
        /\ IF cli_results.success
           THEN /\ UNCHANGED results
                /\ Return(cli_results, "fallback_ok")
           ELSE /\ results' = MergeFallback(results, cli_results)
                /\ Return(results', "fallback_failed")
    /\ UNCHANGED <<env, guard, studio, last_error, idx, acq, teardown>>

Next ==
    \/ CheckConfig
    \/ Connect
    \/ CreateInWorkspace
    \/ CreatePersonal
    \/ Start
    \/ Probe
    \/ Clone
    \/ RunCommand
    \/ Cleanup
    \/ Stop
    \/ Aggregate
    \/ Escape
    \/ HandleException
    \/ Fallback

Spec == Init /\ [][Next]_vars

TypeOK ==
    /\ pc \in {"config", "connect", "create_ws", "create_personal", "start",
               "probe", "clone", "cmd", "cleanup", "stop", "aggregate",
               "except", "fallback", "done", "hung"}
    /\ studio \in {"none", "connect", "workspace", "personal"}
    /\ idx \in 1..(Len(commands) + 1)
    /\ Len(results.outputs) <= Len(commands) + 1

\* ================================================================ claims
\* Helpers of the claims, stated on texts and records, not on the model's
\* own classifier.
MentionsInstall(text) == "install" \in text

InstallClassText(text) == "install" \in text \/ "download" \in text

\* A non-timeout failure of an install-class command.
InstallFailure(o) ==
    ~o.success /\ o.exitCode = 1 /\ InstallClassText(o.command)

PipelineReturned == pc = "done" /\ retPath = "pipeline"

CommandsAttempted == {ops[j].cmd : j \in {i \in DOMAIN ops : ops[i].op = "cmd"}}

Last(seq) == seq[Len(seq)]

\* C1 (as claimed): when an install-class command fails with a failure
\* other than a guard timeout, no later command is attempted and the
\* report returned by the pipeline has overall success = false, whatever
\* happened before.
C1_InstallFailureFailsRun ==
    PipelineReturned =>
        \A k \in DOMAIN results.outputs :
            InstallFailure(results.outputs[k]) =>
                /\ k = Len(results.outputs)
                /\ \A c \in CommandsAttempted : c <= k - 1
                /\ ~returned.success

\* C1 (amended): when an install-class command fails with a failure other
\* than a guard timeout, no later command is attempted, and the report
\* returned by the pipeline has overall success = false unless a recorded
\* CommandResult (the clone result or an earlier command) succeeded with a
\* command text containing 'install'; then it is true and carries the note.
C1_InstallFailureStopsPipeline ==
    PipelineReturned =>
        \A k \in DOMAIN results.outputs :
            InstallFailure(results.outputs[k]) =>
                /\ k = Len(results.outputs)
                /\ \A c \in CommandsAttempted : c <= k - 1
                /\ returned.success =
                      (\E j \in 1..(k - 1) :
                          /\ returned.outputs[j].success
                          /\ MentionsInstall(returned.outputs[j].command))
                /\ returned.success =>
                      Last(returned.errors).kind = "note_install_succeeded"

C1_Witness ==
    /\ PipelineReturned
    /\ Len(results.outputs) >= 2
    /\ InstallFailure(Last(results.outputs))
    /\ Len(results.outputs) - 1 < Len(commands)
    /\ returned.success

\* The scenario of C2: clone succeeded, the list is an install-class
\* command that succeeded followed by a test command that failed.
InstallThenFailingTest ==
    /\ PipelineReturned
    /\ Len(commands) = 2
    /\ InstallClassText(commands[1])
    /\ "test" \in commands[2] /\ ~InstallClassText(commands[2])
    /\ Len(returned.outputs) = 3
    /\ returned.outputs[1].success
    /\ returned.outputs[2].success
    /\ ~returned.outputs[3].success

TestFailureReported ==
    \E e \in DOMAIN returned.errors :
        /\ returned.errors[e].cmd = 2
        /\ returned.errors[e].kind \in {"cmd_failed", "cmd_timed_out"}

\* C2 (as claimed): install succeeds, test fails: the returned report has
\* overall success = false and an error message for the test command.
C2_TestFailureFailsRun ==
    InstallThenFailingTest => ~returned.success /\ TestFailureReported

\* C2 (amended): install succeeds, test fails, the run returns from the
\* pipeline: the returned report has overall success = true and an error
\* message for the test command.
C2_TestFailureKeepsSuccess ==
    InstallThenFailingTest => returned.success /\ TestFailureReported

C2_Witness ==
    /\ InstallThenFailingTest
    /\ returned.outputs[3].exitCode = 1
    /\ ~MentionsInstall(commands[1])
    /\ ~MentionsInstall(repo_url)

\* C3: when the pipeline ends with overall success = false, the returned
\* success is true, with the note appended, exactly when some recorded
\* CommandResult succeeded and its command text contains 'install' or
\* 'download'; otherwise success stays false and the errors are unchanged.
C3_PromotionRule ==
    [][(pc = "aggregate" /\ pc' = "done" /\ ~results.success) =>
          LET qualifies ==
                \E j \in DOMAIN results.outputs :
                    /\ results.outputs[j].success
                    /\ InstallClassText(results.outputs[j].command)
          IN  /\ returned'.success = qualifies
              /\ returned'.outputs = results.outputs
              /\ returned'.errors =
                    IF qualifies
                    THEN Append(results.errors,
                                Err("note_install_succeeded", 0))
                    ELSE results.errors]_vars

\* C4: a command that ends in a guard timeout, or a command outside the
\* install class that fails, is followed by the next command of the list;
\* the pipeline ends before the last command only on a non-timeout
\* failure of an install-class command.
C4_ContinueUnlessInstallFailure ==
    [][(pc = "cmd" /\ pc' \in {"cmd", "cleanup"}) =>
          LET r == Last(results'.outputs) IN
          /\ Len(results'.outputs) = Len(results.outputs) + 1
          /\ r.command = commands[idx]
          /\ (/\ r.exitCode = TimeoutExitCode
                 \/ (r.exitCode = 1 /\ ~InstallClassText(r.command))
              /\ idx < Len(commands))
                => (pc' = "cmd" /\ idx' = idx + 1)
          /\ (pc' = "cleanup" /\ idx < Len(commands))
                => InstallFailure(r)]_vars

C4_Witness ==
    /\ Len(results.outputs) = 3
    /\ results.outputs[2].exitCode = TimeoutExitCode
    /\ InstallClassText(results.outputs[2].command)
    /\ results.outputs[3].exitCode = 1
    /\ ~InstallClassText(results.outputs[3].command)
    /\ \E j \in DOMAIN ops : ops[j].op = "cmd" /\ ops[j].cmd = 2

\* C5: a returned report with overall success = false carries at least
\* one error string, on every return path.
C5_FailureHasError ==
    pc = "done" => (returned.success \/ Len(returned.errors) >= 1)

C5_Witness ==
    /\ pc = "done"
    /\ retPath = "clone_timeout"
    /\ ~returned.success

\* C6: every remote operation is issued under a TimeoutGuard deadline, so
\* no run stays blocked in a remote operation that never returns.
RemoteOps ==
    {"connect", "create_ws", "create_personal", "start", "probe", "clone",
     "cmd", "rm", "stop"}

C6_EveryRemoteOpGuarded ==
    /\ \A j \in DOMAIN ops : ops[j].op \in RemoteOps => ops[j].budget > 0
    /\ pc # "hung"

\* C7: when a session handle was acquired, the run returns only after a
\* session stop was attempted or with an error declaring that the session
\* was not torn down.
C7_TornDownOrDeclared ==
    (pc = "done" /\ studio # "none") =>
        \/ \E j \in DOMAIN ops : ops[j].op = "stop"
        \/ \E e \in DOMAIN returned.errors :
              returned.errors[e].kind = "session_not_torn_down"

\* C8: in every CommandResult of every returned report, primary or
\* fallback, stdout is at most 5000 characters (1000 for the clone
\* result) and stderr at most 2000.
C8_OutputsCapped ==
    pc = "done" =>
        \A k \in DOMAIN returned.outputs :
            /\ returned.outputs[k].stdout <= CmdStdoutCap
            /\ returned.outputs[k].stderr <= CmdStderrCap
            /\ (k = 1 /\ retPath # "fallback_ok")
                  => returned.outputs[k].stdout <= CloneStdoutCap

\* C9: a failure of workspace removal or of session stop leaves the
\* report as it was and the run goes on as after a success; a run whose
\* clone and commands all succeeded returns overall success = true even
\* when teardown failed.
C9_TeardownFailureIsNeutral ==
    [][/\ (pc = "cleanup" /\ teardown'.rm = "fail")
            => (results' = results /\ pc' = "stop")
       /\ (pc = "stop" /\ teardown'.stop = "fail")
            => (results' = results /\ pc' = "aggregate")
       /\ (/\ pc = "aggregate" /\ pc' = "done"
           /\ "fail" \in {teardown.rm, teardown.stop}
           /\ Len(results.outputs) = Len(commands) + 1
           /\ \A k \in DOMAIN results.outputs : results.outputs[k].success)
            => (returned'.success /\ returned'.errors = <<>>)]_vars

C9_Witness ==
    /\ PipelineReturned
    /\ teardown.rm = "fail"
    /\ teardown.stop = "fail"
    /\ Len(commands) >= 1
    /\ Len(returned.outputs) = Len(commands) + 1
    /\ \A k \in DOMAIN returned.outputs : returned.outputs[k].success
    /\ returned.success

\* C10: acquisition tries connect, create-in-workspace, create-personal in
\* that order; a strategy is attempted only after every earlier one
\* failed, and nothing is attempted after the first success.
CascadeOrder == <<"connect", "create_ws", "create_personal">>

C10_CascadeShortCircuits ==
    /\ Len(acq) <= Len(CascadeOrder)
    /\ \A k \in DOMAIN acq :
          /\ acq[k].strategy = CascadeOrder[k]
          /\ k < Len(acq) => acq[k].outcome = "fail"
    /\ [j \in 1..Len(acq) |-> ops[j].op] = [j \in 1..Len(acq) |-> acq[j].strategy]
    /\ \A j \in DOMAIN ops :
          ops[j].op \in {"connect", "create_ws", "create_personal"}
             => j <= Len(acq)

C10_Witness ==
    /\ pc = "done"
    /\ Len(acq) = 1
    /\ acq[1].strategy = "connect"
    /\ acq[1].outcome = "ok"
    /\ studio = "connect"

\* C11: when connect, create-in-workspace and create-personal all fail,
\* the run returns success = false, no CommandResult, the failure reason
\* of create-personal followed by the remediation text, and no operation
\* other than the three attempts was issued.
AllStrategiesFailed ==
    /\ Len(acq) = 3
    /\ \A k \in DOMAIN acq : acq[k].outcome = "fail"

C11_AcquisitionFailureReport ==
    AllStrategiesFailed =>
        /\ pc = "done"
        /\ ~returned.success
        /\ returned.outputs = <<>>
        /\ Len(returned.errors) = 3
        /\ returned.errors[1].kind = "studio_creation_failed: create_personal"
        /\ returned.errors[2].kind = "troubleshooting"
        /\ returned.errors[3].kind = "required_env"
        /\ Len(ops) = 3
        /\ \A j \in DOMAIN ops : ops[j].op = CascadeOrder[j]

C11_Witness ==
    /\ AllStrategiesFailed
    /\ pc = "done"
    /\ retPath = "acquisition"

\* C12: with the API key missing, or with both the username and the user
\* id missing, the run returns success = false, no CommandResult and a
\* configuration error, issues no remote or CLI operation, and the
\* process exits with code 1.
CredentialsMissing == ~api_key \/ (~username /\ ~user_id)

C12_ConfigurationError ==
    (CredentialsMissing /\ pc # "config") =>
        /\ pc = "done"
        /\ ~returned.success
        /\ returned.outputs = <<>>
        /\ returned.errors[1].kind =
              (IF ~api_key THEN "api_key_not_set" ELSE "user_not_set")
        /\ ops = <<>>
        /\ acq = <<>>
        /\ ExitCode(returned) = 1

C12_Witness ==
    /\ pc = "done"
    /\ ~api_key
    /\ username
    /\ ops = <<>>

\* C13: the CommandResults of a returned report are empty, or the single
\* aggregate result of the fallback, or the clone result followed by one
\* result per attempted command in the caller's order; never more than
\* the number of commands + 1.
C13_ResultsArePrefix ==
    pc = "done" =>
        LET o == returned.outputs IN
        /\ Len(o) <= Len(commands) + 1
        /\ \/ o = <<>>
           \/ /\ retPath = "fallback_ok"
              /\ Len(o) = 1
              /\ o[1].command = {}
           \/ /\ retPath # "fallback_ok"
              /\ o[1].command = repo_url
              /\ o[1].success
              /\ \A k \in 2..Len(o) : o[k].command = commands[k - 1]
              /\ CommandsAttempted = 1..(Len(o) - 1)

C13_Witness ==
    /\ pc = "done"
    /\ retPath = "fallback_failed"
    /\ Len(commands) = 2
    /\ Len(returned.outputs) = 2

\* The state right after the named guarded call ended as `outcome`.
JustEnded(name, outcome) ==
    /\ Len(ops) > 0
    /\ Last(ops).op = name
    /\ last_outcome = outcome

NoFallbackTried ==
    /\ \A j \in DOMAIN ops : ops[j].op # "cli"
    /\ \A e \in DOMAIN results.errors :
          results.errors[e].kind # "sdk_execution_failed"

\* C14 (as claimed): a probe timeout ends the run at once without the
\* fallback, while a probe failure that is not a timeout goes on to the
\* outer handler and the fallback.
C14_ProbeFailureFallsBack ==
    /\ JustEnded("probe", "timeout") =>
          (pc = "done" /\ ~returned.success /\ NoFallbackTried)
    /\ JustEnded("probe", "fail") => pc # "done"

\* C14 (amended): a probe timeout and a probe failure that is not a
\* timeout both end the run at once with a failure report, without the
\* fallback being tried.
C14_ProbeFailureIsTerminal ==
    (JustEnded("probe", "timeout") \/ JustEnded("probe", "fail")) =>
        /\ pc = "done"
        /\ ~returned.success
        /\ returned.outputs = <<>>
        /\ returned.errors[1].kind =
              (IF last_outcome = "timeout"
               THEN "studio_not_responsive_timeout"
               ELSE "studio_not_responsive")
        /\ NoFallbackTried

C14_Witness ==
    /\ JustEnded("probe", "fail")
    /\ pc = "done"

\* C15: a clone that times out or fails ends the run with success =
\* false and an error naming the clone stage; no command, no workspace
\* removal, no session stop and no fallback follows.
C15_CloneFailureIsTerminal ==
    (JustEnded("clone", "timeout") \/ JustEnded("clone", "fail")) =>
        /\ pc = "done"
        /\ ~returned.success
        /\ returned.outputs = <<>>
        /\ Last(returned.errors).kind =
              (IF last_outcome = "timeout" THEN "clone_timed_out"
               ELSE "clone_failed")
        /\ \A j \in DOMAIN ops : ops[j].op \notin {"cmd", "rm", "stop", "cli"}

C15_Witness ==
    /\ JustEnded("clone", "timeout")
    /\ pc = "done"
    /\ Len(commands) >= 1

\* C16: whether start succeeds, times out or fails, the run goes on to
\* the probe, which is the next remote operation it issues; the start
\* outcome ends nothing and adds no error string.
C16_StartAlwaysProceeds ==
    [][/\ (pc = "start" /\ ops' # ops) =>
              /\ Last(ops').op = "start"
              /\ pc' = "probe"
              /\ results' = results
              /\ returned' = returned
              /\ retPath' = retPath
       /\ (pc = "probe" /\ ops' # ops) => Last(ops').op = "probe"]_vars

C16_Witness ==
    /\ pc = "probe"
    /\ JustEnded("start", "timeout")
    /\ results.errors = <<>>

\* C17: after a successful clone, whatever the pipeline outcome, the
\* workspace removal and the session stop are each attempted exactly
\* once, in that order, before the report is returned, also when the
\* removal fails.
OpsNamed(name) == {j \in DOMAIN ops : ops[j].op = name}

C17_TeardownAlwaysAttempted ==
    (pc = "done" /\ Len(results.outputs) >= 1 /\ NoFallbackTried) =>
        /\ Cardinality(OpsNamed("rm")) = 1
        /\ Cardinality(OpsNamed("stop")) = 1
        /\ ops[Len(ops) - 1].op = "rm"
        /\ ops[Len(ops)].op = "stop"

C17_Witness ==
    /\ PipelineReturned
    /\ teardown.rm = "fail"
    /\ InstallFailure(Last(results.outputs))
    /\ Len(results.outputs) - 1 < Len(commands)

\* C18: a fallback that does not succeed returns the primary report with
\* success = false, its CommandResults unchanged and its errors followed
\* by the fallback's errors; a fallback that succeeds returns its own
\* report.
FallbackErrorKinds ==
    {"cli_not_available", "cli_execution_failed", "cli_timed_out",
     "cli_execution_error"}

C18_FallbackMerge ==
    [][(pc = "fallback" /\ pc' = "done") =>
          \/ /\ returned'.success
             /\ Len(returned'.outputs) = 1
             /\ returned'.outputs[1].command = {}
             /\ returned'.errors = <<>>
          \/ /\ ~returned'.success
             /\ ~results.success
             /\ returned'.outputs = results.outputs
             /\ Len(returned'.errors) = Len(results.errors) + 1
             /\ SubSeq(returned'.errors, 1, Len(results.errors))
                   = results.errors
             /\ Last(returned'.errors).kind \in FallbackErrorKinds]_vars

C18_Witness ==
    /\ pc = "done"
    /\ retPath = "fallback_failed"
    /\ Len(returned.outputs) >= 2
    /\ Len(returned.errors) >= 3
    /\ Last(returned.errors).kind = "cli_timed_out"

\* C19: no alarm is left pending when run_with_timeout has exited, by a
\* result, a Timeout or an exception of the call; between the steps of
\* the run nothing can raise a Timeout.
C19_NoAlarmLeftArmed == alarm = FALSE

C19_Witness ==
    /\ pc = "probe"
    /\ JustEnded("start", "fail")
    /\ Last(ops).budget = StartBudget
    /\ alarm = FALSE

\* C20: in the pipeline only a non-timeout failure of an install-class
\* command sets overall success to false; a run whose clone succeeded and
\* whose commands all timed out returns success = true with errors.
AllCommandsTimedOut(outputs) ==
    /\ Len(commands) >= 1
    /\ Len(outputs) = Len(commands) + 1
    /\ \A k \in 2..Len(outputs) : outputs[k].exitCode = TimeoutExitCode

C20_OnlyInstallFailureClearsSuccess ==
    [][/\ (pc = "cmd" /\ ops' # ops /\ results'.success # results.success)
            => (~results'.success /\ InstallFailure(Last(results'.outputs)))
       /\ (pc = "aggregate" /\ pc' = "done"
           /\ AllCommandsTimedOut(results.outputs))
            => (/\ returned'.success
                /\ Len(returned'.errors) = Len(commands))]_vars

C20_Witness ==
    /\ PipelineReturned
    /\ AllCommandsTimedOut(returned.outputs)
    /\ Len(commands) = 2
    /\ InstallClassText(commands[1])
    /\ returned.success
    /\ returned.errors # <<>>

\* C21: no failure or timeout of a remote operation leaves the inner
\* handlers of the primary path: the step that issues a remote operation
\* never ends in the outer handler or the fallback, and the outer handler
\* is entered only by a step that issued no remote operation.
C21_RemoteFailuresStayStructured ==
    [][/\ (pc # "except" /\ ops' # ops /\ Last(ops').op \in RemoteOps)
            => pc' \notin {"except", "fallback"}
       /\ (pc # "except" /\ pc' = "except")
            => /\ ops' = ops
               /\ acq' = acq
               /\ teardown' = teardown
               /\ last_outcome' = last_outcome
               /\ results' = results]_vars

C21_Witness ==
    /\ PipelineReturned
    /\ NoFallbackTried
    /\ Len(acq) = 3
    /\ acq[1].outcome = "fail"
    /\ teardown.rm = "fail"
    /\ teardown.stop = "fail"
    /\ Len(returned.outputs) = 3
    /\ returned.outputs[2].exitCode = TimeoutExitCode
    /\ returned.outputs[3].exitCode = 1

====
